---- MODULE Spec2Model ----
(***************************************************************************)
(* Model of the AI orchestration code of app1.py:                          *)
(*   - generate_student_itinerary: bounded retry with exponential backoff  *)
(*     around GEMINI_CLIENT.models.generate_content and json.loads;        *)
(*   - render_chat_page: one streamed chat turn appended to                *)
(*     st.session_state.messages.                                          *)
(* Text is modelled by TLA+ strings, a provider response text by the       *)
(* sequence of its JSON tokens, a decoded JSON document by a tagged record.*)
(***************************************************************************)
EXTENDS Integers, Sequences, FiniteSets, TLC

VARIABLES
    pc,             \* position of the running script
    GEMINI_CLIENT,  \* "client" when genai.Client was built, "None" otherwise
    attempt,        \* loop variable of generate_student_itinerary
    last_error,     \* last_error of generate_student_itinerary
    response,       \* outcome of the latest generate_content call
    result,         \* the (message, itinerary) pair returned to the caller
    calls,          \* number of generate_content calls made by the current call
    sleeps,         \* the time.sleep calls of the current call, in order
    session_state,  \* st.session_state, a function on the keys set so far
    prompt,         \* the text the user submitted in this script run
    full_response,  \* text accumulated by st.write_stream
    arrived,        \* chunks the provider stream has yielded this turn
    stream_calls,   \* number of generate_content_stream calls of this run
    log_before,     \* st.session_state.messages just before line 346 appended
    caught,         \* str(e) of the exception caught at line 371, "" if none
    chat_outcome    \* how the chat page run ended

vars == << pc, GEMINI_CLIENT, attempt, last_error, response, result, calls,
           sleeps, session_state, prompt, full_response, arrived,
           stream_calls, log_before, caught, chat_outcome >>

genVars == << attempt, last_error, response, result, calls, sleeps >>
chatVars == << session_state, prompt, full_response, arrived, stream_calls,
               log_before, caught, chat_outcome >>

-----------------------------------------------------------------------------
(* Configuration *)

MAX_RETRIES == 5
INITIAL_DELAY == 1

\* Longest provider stream (number of chunks) explored for one chat turn.
MaxChunks == 2
\* Number of chat turns explored in one session.
MaxTurns == 2

-----------------------------------------------------------------------------
(* JSON documents and json.loads *)

None == [t |-> "None"]
JNum(n) == [t |-> "num", n |-> n]
JStr(s) == [t |-> "str", s |-> s]
JList(items) == [t |-> "list", items |-> items]
JDict(items) == [t |-> "dict", items |-> items]
EmptyDict == [k \in {} |-> None]

\* Tokens of a JSON text: punctuation, number, string literal, bare word.
P(v) == [k |-> "p", v |-> v]
N(v) == [k |-> "n", v |-> v]
S(v) == [k |-> "s", v |-> v]
W(v) == [k |-> "w", v |-> v]
EOF == [k |-> "eof", v |-> ""]

NumOf(v) ==
    CASE v = "0" -> 0
      [] v = "1" -> 1
      [] v = "2" -> 2
      [] v = "3" -> 3
      [] v = "150" -> 150
      [] v = "-50" -> -50

Tok(toks, i) == IF i <= Len(toks) THEN toks[i] ELSE EOF

Decoded(val, next) == [ok |-> TRUE, val |-> val, next |-> next, msg |-> "", pos |-> 0]
JSONDecodeError(msg, pos) == [ok |-> FALSE, val |-> None, next |-> 0, msg |-> msg, pos |-> pos]

RECURSIVE ParseValue(_, _), ParseElements(_, _, _), ParseMembers(_, _, _)

ParseValue(toks, i) ==
    LET t == Tok(toks, i) IN
    CASE t.k = "n" -> Decoded(JNum(NumOf(t.v)), i + 1)
      [] t.k = "s" -> Decoded(JStr(t.v), i + 1)
      [] t = W("null") -> Decoded(None, i + 1)
      [] t = P("[") ->
            IF Tok(toks, i + 1) = P("]")
            THEN Decoded(JList(<< >>), i + 2)
            ELSE ParseElements(toks, i + 1, << >>)
      [] t = P("{") ->
            IF Tok(toks, i + 1) = P("}")
            THEN Decoded(JDict(EmptyDict), i + 2)
            ELSE ParseMembers(toks, i + 1, EmptyDict)
      [] OTHER -> JSONDecodeError("Expecting value", i)

ParseElements(toks, i, acc) ==
    LET r == ParseValue(toks, i) IN
    IF ~r.ok THEN r
    ELSE LET t == Tok(toks, r.next) IN
         IF t = P(",") THEN ParseElements(toks, r.next + 1, Append(acc, r.val))
         ELSE IF t = P("]") THEN Decoded(JList(Append(acc, r.val)), r.next + 1)
         ELSE JSONDecodeError("Expecting ',' delimiter", r.next)

ParseMembers(toks, i, acc) ==
    LET key == Tok(toks, i) IN
    IF key.k # "s"
    THEN JSONDecodeError("Expecting property name enclosed in double quotes", i)
    ELSE IF Tok(toks, i + 1) # P(":")
    THEN JSONDecodeError("Expecting ':' delimiter", i + 1)
    ELSE LET r == ParseValue(toks, i + 2) IN
         IF ~r.ok THEN r
         ELSE LET t == Tok(toks, r.next)
                  \* a repeated key keeps its last value, as a Python dict does
                  members == (key.v :> r.val) @@ acc
              IN  IF t = P(",") THEN ParseMembers(toks, r.next + 1, members)
                  ELSE IF t = P("}") THEN Decoded(JDict(members), r.next + 1)
                  ELSE JSONDecodeError("Expecting ',' delimiter", r.next)

json_loads(toks) ==
    LET r == ParseValue(toks, 1) IN
    IF r.ok /\ r.next <= Len(toks)
    THEN JSONDecodeError("Extra data", r.next)
    ELSE r

-----------------------------------------------------------------------------
(* Provider outcomes of generate_content *)

ActivityText(cost) ==
    << P("{"), S("time"), P(":"), S("Morning"), P(","),
       S("activity"), P(":"), S("Walk the old town"), P(","),
       S("estimated_cost_inr"), P(":"), N(cost), P("}") >>

DayText(day, plan) ==
    << P("{"), S("day"), P(":"), N(day), P(","),
       S("theme"), P(":"), S("Cheap Eats Day"), P(","),
       S("plan"), P(":"), P("[") >> \o plan \o << P("]"), P(","),
       S("efficiency_tip"), P(":"), S("Walk between stops"), P("}") >>

\* texts a provider may send back: well formed and conforming, well formed
\* but not conforming to ITINERARY_SCHEMA, and not JSON at all
TextThreeDays ==
    << P("[") >> \o DayText("1", ActivityText("150")) \o << P(",") >>
                 \o DayText("2", ActivityText("0")) \o << P(",") >>
                 \o DayText("3", ActivityText("0")) \o << P("]") >>
TextEmptyList == << P("["), P("]") >>
TextObject == << P("{"), P("}") >>
TextNull == << W("null") >>
TextMissingField ==
    << P("["), P("{"), S("day"), P(":"), N("1"), P("}"), P("]") >>
TextEmptyPlan == << P("[") >> \o DayText("1", << >>) \o << P("]") >>
TextNegativeCost ==
    << P("[") >> \o DayText("1", ActivityText("-50")) \o << P("]") >>
TextRepeatedDay ==
    << P("[") >> \o DayText("1", ActivityText("0")) \o << P(",") >>
                 \o DayText("1", ActivityText("0")) \o << P("]") >>
TextTruncated == << P("["), P("{"), S("day"), P(":"), N("1"), P(",") >>
TextProse == << W("Sure"), W("here"), W("is"), W("your"), W("plan") >>

JsonTexts ==
    { TextThreeDays, TextEmptyList, TextObject, TextNull, TextMissingField,
      TextEmptyPlan, TextNegativeCost, TextRepeatedDay }
MalformedTexts == { TextTruncated, TextProse }

\* generate_content either raises or returns a response whose .text is a
\* string or None
Raised(e) == [kind |-> "raise", e |-> e, has_text |-> FALSE, text |-> << >>]
Returned(text) == [kind |-> "return", e |-> "", has_text |-> TRUE, text |-> text]
ReturnedNoText == [kind |-> "return", e |-> "", has_text |-> FALSE, text |-> << >>]
NoResponse == [kind |-> "none", e |-> "", has_text |-> FALSE, text |-> << >>]

TransportErrors == { "503 UNAVAILABLE", "Connection reset by peer" }

Responses ==
    { Raised(e) : e \in TransportErrors }
        \cup { Returned(text) : text \in JsonTexts \cup MalformedTexts }
        \cup { ReturnedNoText }

-----------------------------------------------------------------------------
(* ITINERARY_SCHEMA *)

HasKeys(v, keys) == v.t = "dict" /\ keys \subseteq DOMAIN v.items

ActivityRequired == { "time", "activity", "estimated_cost_inr" }
DayRequired == { "day", "theme", "plan", "efficiency_tip" }

ConformsActivity(a) ==
    /\ HasKeys(a, ActivityRequired)
    /\ a.items["time"].t = "str"
    /\ a.items["activity"].t = "str"
    /\ a.items["estimated_cost_inr"].t = "num"

ConformsDay(d) ==
    /\ HasKeys(d, DayRequired)
    /\ d.items["day"].t = "num"
    /\ d.items["theme"].t = "str"
    /\ d.items["efficiency_tip"].t = "str"
    /\ d.items["plan"].t = "list"
    /\ \A i \in 1..Len(d.items["plan"].items) :
            ConformsActivity(d.items["plan"].items[i])

ITINERARY_SCHEMA(v) ==
    /\ v.t = "list"
    /\ \A i \in 1..Len(v.items) : ConformsDay(v.items[i])

-----------------------------------------------------------------------------
(* generate_student_itinerary *)

NOT_INITIALIZED == "Error: Gemini client is not initialized. Check API Key."
GENERATED == "Itinerary generated successfully!"
UNKNOWN_ERROR == "Unknown error occurred before first API call."

NoResult == [msg |-> "", itinerary |-> None]

\* str(e) of a json.JSONDecodeError, with the position counted in tokens
DecodeDetail(r) == r.msg \o " (token " \o ToString(r.pos) \o ")"

FormatError(a, detail) ==
    "AI response format error (Attempt " \o ToString(a + 1)
        \o "): Failed to parse JSON response. Details: " \o detail

ConnectionError(a, detail) ==
    "Gemini API connection error (Attempt " \o ToString(a + 1) \o "): " \o detail

Failed(err) ==
    "Failed to generate itinerary after multiple retries. Last known error: " \o err

\* One pass through the try blocks of the loop body for provider outcome
\* resp: the value returned, or the error recorded in last_error.
TryAttempt(resp, a) ==
    IF resp.kind = "raise"
    THEN [returns |-> FALSE, itinerary |-> None, error |-> ConnectionError(a, resp.e)]
    ELSE IF ~resp.has_text
    THEN \* json.loads(None) raises TypeError, caught by the outer except
         [returns |-> FALSE, itinerary |-> None,
          error |-> ConnectionError(a, "the JSON object must be str, bytes or bytearray, not NoneType")]
    ELSE LET r == json_loads(resp.text) IN
         IF r.ok
         THEN [returns |-> TRUE, itinerary |-> r.val, error |-> ""]
         ELSE [returns |-> FALSE, itinerary |-> None,
               error |-> FormatError(a, DecodeDetail(r))]

\* the loop bound off by one
RangeHasNext_OneMore(a) == a <= MAX_RETRIES

\* Line 88: range(MAX_RETRIES) has a value for the loop variable
RangeHasNext(a) == a < MAX_RETRIES

\* Line 105
SleepsAfter(a) == a < MAX_RETRIES - 1

\* a delay that grows linearly
BackoffDelay_Linear(a) == INITIAL_DELAY * (2 * a)

\* Line 106
BackoffDelay(a) == INITIAL_DELAY * (2 ^ a)

Enter(newpc) == pc' = newpc

\* Lines 19-27, run at the top of every script run: the client is built, or
\* left None when the key is empty or genai.Client raises.
InitClient ==
    /\ pc = "start"
    /\ GEMINI_CLIENT' \in { "client", "None" }
    /\ Enter("main")
    /\ UNCHANGED << genVars, chatVars >>

\* the guard on the client left out
ClientMissing_Unchecked == FALSE

\* Lines 61 and 310: "if not GEMINI_CLIENT"
ClientMissing == GEMINI_CLIENT = "None"

\* Lines 59-86: the guard on the client and the set-up before the loop.
generate_student_itinerary ==
    /\ pc = "main"
    /\ IF ClientMissing
       THEN /\ result' = [msg |-> NOT_INITIALIZED, itinerary |-> None]
            /\ Enter("gen_returned")
            /\ UNCHANGED << attempt, last_error >>
       ELSE /\ last_error' = UNKNOWN_ERROR
            /\ attempt' = 0
            /\ Enter("gen_loop")
            /\ UNCHANGED result
    /\ UNCHANGED << GEMINI_CLIENT, response, calls, sleeps, chatVars >>

\* the error is handed to the caller at once instead of being retried
AfterFailure_Surfaced(err) ==
    /\ last_error' = err
    /\ result' = [msg |-> err, itinerary |-> None]
    /\ Enter("gen_returned")
    /\ UNCHANGED attempt

\* only the first error is kept
AfterFailure_KeepsFirst(err) ==
    /\ last_error' = IF last_error = UNKNOWN_ERROR THEN err ELSE last_error
    /\ UNCHANGED result
    /\ IF SleepsAfter(attempt)
       THEN /\ Enter("gen_sleep")
            /\ UNCHANGED attempt
       ELSE /\ Enter("gen_loop")
            /\ attempt' = attempt + 1

\* What follows a failed pass of the loop body (lines 105-107 and the loop
\* header): the error is kept, and the loop sleeps or moves on.
AfterFailure(err) ==
    /\ last_error' = err
    /\ UNCHANGED result
    /\ IF SleepsAfter(attempt)
       THEN /\ Enter("gen_sleep")
            /\ UNCHANGED attempt
       ELSE /\ Enter("gen_loop")
            /\ attempt' = attempt + 1

\* the decoded itinerary is kept but the loop goes on
AfterSuccess_NoReturn(itinerary) ==
    /\ result' = [msg |-> GENERATED, itinerary |-> itinerary]
    /\ UNCHANGED last_error
    /\ IF SleepsAfter(attempt)
       THEN /\ Enter("gen_sleep")
            /\ UNCHANGED attempt
       ELSE /\ Enter("gen_returned")
            /\ UNCHANGED attempt

\* What follows a successful json.loads (line 98).
AfterSuccess(itinerary) ==
    /\ result' = [msg |-> GENERATED, itinerary |-> itinerary]
    /\ Enter("gen_returned")
    /\ UNCHANGED << attempt, last_error >>

\* Lines 88-105: one pass of the loop body, with the provider's outcome.
generate_content(resp) ==
    /\ pc = "gen_loop"
    /\ RangeHasNext(attempt)
    /\ calls' = calls + 1
    /\ response' = resp
    /\ LET t == TryAttempt(resp, attempt) IN
       IF t.returns THEN AfterSuccess(t.itinerary) ELSE AfterFailure(t.error)
    /\ UNCHANGED << GEMINI_CLIENT, sleeps, chatVars >>

\* Lines 106-107, then the next value of the loop variable.
time_sleep ==
    /\ pc = "gen_sleep"
    /\ sleeps' = Append(sleeps, [after |-> attempt, delay |-> BackoffDelay(attempt)])
    /\ attempt' = attempt + 1
    /\ Enter("gen_loop")
    /\ UNCHANGED << GEMINI_CLIENT, last_error, response, result, calls, chatVars >>

\* Line 109: the loop ran out of attempts.
ReturnFailed ==
    /\ pc = "gen_loop"
    /\ ~RangeHasNext(attempt)
    /\ result' = [msg |-> Failed(last_error), itinerary |-> None]
    /\ Enter("gen_returned")
    /\ UNCHANGED << GEMINI_CLIENT, attempt, last_error, response, calls, sleeps, chatVars >>

-----------------------------------------------------------------------------
(* render_chat_page *)

GREETING ==
    [role |-> "model",
     content |-> "Hello! I'm a helpful AI assistant. How can I help you plan your next budget trip or answer a general question?"]

Message(role, content) == [role |-> role, content |-> content]

\* st.chat_input gives "" (nothing submitted) or the submitted text
Prompts == { "hi" }

\* a chunk of the stream: its .text is a string or None
Chunk(text) == [has_text |-> TRUE, text |-> text]
ChunkNoText == [has_text |-> FALSE, text |-> ""]
Chunks == { Chunk("Hel"), Chunk("lo!"), Chunk(""), ChunkNoText }

StreamErrors == { "429 RESOURCE_EXHAUSTED", "Server disconnected" }

Messages == session_state["messages"]

HasMessages == "messages" \in DOMAIN session_state

\* Line 372
ErrorMessage(e) == "An error occurred: " \o e

\* Line 366: the generator's filter, "if chunk.text"
HasText(chunk) == chunk.has_text /\ chunk.text # ""

\* the new text put in front of the accumulated text
WriteStream_Prepend(acc, text) == text \o acc

\* st.write_stream adds each streamed string to the text it returns
WriteStream(acc, text) == acc \o text

\* a failed turn dropped without a trace in the log
OnStreamError_Dropped(e) == Messages

\* the text streamed so far kept as the reply of a failed turn
OnStreamError_Partial(e) == Append(Messages, Message("model", full_response))

\* Lines 371-374: the except branch
OnStreamError(e) == Append(Messages, Message("model", ErrorMessage(e)))

\* the reply written over the last entry instead of being appended
OnStreamEnd_Overwrites ==
    [Messages EXCEPT ![Len(Messages)] = Message("model", full_response)]

\* Line 369
OnStreamEnd == Append(Messages, Message("model", full_response))

SetMessages(log) == session_state' = [session_state EXCEPT !["messages"] = log]

\* Lines 304-353: the page up to the provider call, with the text p that
\* st.chat_input returns.
render_chat_page(p) ==
    /\ pc = "main"
    /\ IF ClientMissing
       THEN /\ chat_outcome' = "unavailable"
            /\ Enter("chat_done")
            /\ UNCHANGED << session_state, prompt, log_before >>
       ELSE LET seeded == IF HasMessages THEN session_state
                          ELSE ("messages" :> << GREETING >>) @@ session_state
            IN  IF p # ""
                THEN /\ Len(seeded["messages"]) < 1 + 2 * MaxTurns
                     /\ log_before' = seeded["messages"]
                     /\ session_state' =
                            [seeded EXCEPT !["messages"] = Append(@, Message("user", p))]
                     /\ prompt' = p
                     /\ Enter("chat_call")
                     /\ UNCHANGED chat_outcome
                ELSE /\ session_state' = seeded
                     /\ chat_outcome' = "rendered"
                     /\ Enter("chat_done")
                     /\ UNCHANGED << prompt, log_before >>
    /\ UNCHANGED << GEMINI_CLIENT, genVars, full_response, arrived, stream_calls, caught >>

\* The except branch is taken with exception e.
Except(e) ==
    /\ caught' = e
    /\ SetMessages(OnStreamError(e))
    /\ chat_outcome' = "error"
    /\ Enter("chat_done")

\* Lines 356-362: the streaming call is made; it hands back the stream
\* (opened = "") or raises.
generate_content_stream(opened) ==
    /\ pc = "chat_call"
    /\ stream_calls' = stream_calls + 1
    /\ IF opened = ""
       THEN /\ Enter("chat_stream")
            /\ UNCHANGED << session_state, caught, chat_outcome >>
       ELSE Except(opened)
    /\ UNCHANGED << GEMINI_CLIENT, genVars, prompt, full_response, arrived,
                    log_before >>

\* Line 366: the stream yields one more chunk.
StreamChunk(chunk) ==
    /\ pc = "chat_stream"
    /\ Len(arrived) < MaxChunks
    /\ arrived' = Append(arrived, chunk)
    /\ full_response' =
            IF HasText(chunk) THEN WriteStream(full_response, chunk.text)
            ELSE full_response
    /\ UNCHANGED << pc, GEMINI_CLIENT, genVars, session_state, prompt,
                    stream_calls, log_before, caught, chat_outcome >>

\* Lines 366-369: the stream ends.
StreamEnd ==
    /\ pc = "chat_stream"
    /\ SetMessages(OnStreamEnd)
    /\ chat_outcome' = "success"
    /\ Enter("chat_done")
    /\ UNCHANGED << GEMINI_CLIENT, genVars, prompt, full_response, arrived,
                    stream_calls, log_before, caught >>

\* Lines 366 and 371-374: the stream raises e while it is consumed, before
\* the first chunk or after some.
StreamRaises(e) ==
    /\ pc = "chat_stream"
    /\ Except(e)
    /\ UNCHANGED << GEMINI_CLIENT, genVars, prompt, full_response, arrived,
                    stream_calls, log_before >>

-----------------------------------------------------------------------------
(* The script run ends; the next one starts from the top. Only            *)
(* st.session_state outlives a run.                                        *)

ScriptEnd ==
    /\ pc \in { "gen_returned", "chat_done" }
    /\ Enter("start")
    /\ attempt' = 0
    /\ last_error' = ""
    /\ response' = NoResponse
    /\ result' = NoResult
    /\ calls' = 0
    /\ sleeps' = << >>
    /\ prompt' = ""
    /\ full_response' = ""
    /\ arrived' = << >>
    /\ stream_calls' = 0
    /\ log_before' = << >>
    /\ caught' = ""
    /\ chat_outcome' = ""
    /\ UNCHANGED << GEMINI_CLIENT, session_state >>

Init ==
    /\ pc = "start"
    /\ GEMINI_CLIENT = "None"
    /\ attempt = 0
    /\ last_error = ""
    /\ response = NoResponse
    /\ result = NoResult
    /\ calls = 0
    /\ sleeps = << >>
    /\ session_state = [k \in {} |-> << >>]
    /\ prompt = ""
    /\ full_response = ""
    /\ arrived = << >>
    /\ stream_calls = 0
    /\ log_before = << >>
    /\ caught = ""
    /\ chat_outcome = ""

Next ==
    \/ InitClient
    \/ generate_student_itinerary
    \/ \E resp \in Responses : generate_content(resp)
    \/ time_sleep
    \/ ReturnFailed
    \/ \E p \in Prompts \cup { "" } : render_chat_page(p)
    \/ \E opened \in StreamErrors \cup { "" } : generate_content_stream(opened)
    \/ \E chunk \in Chunks : StreamChunk(chunk)
    \/ StreamEnd
    \/ \E e \in StreamErrors : StreamRaises(e)
    \/ ScriptEnd

Spec == Init /\ [][Next]_vars

-----------------------------------------------------------------------------
(* Properties *)

Returned_ == pc = "gen_returned"
Succeeded == Returned_ /\ result.msg = GENERATED

\* An itinerary as the data model describes it: a non-empty list of days
\* that conform to ITINERARY_SCHEMA, with positive unique day numbers,
\* non-empty plans and costs that are not negative.
WellFormedItinerary(v) ==
    /\ ITINERARY_SCHEMA(v)
    /\ Len(v.items) > 0
    /\ \A i \in 1..Len(v.items) :
        LET d == v.items[i].items IN
        /\ d["day"].n > 0
        /\ \A j \in 1..Len(v.items) : j # i => v.items[j].items["day"].n # d["day"].n
        /\ Len(d["plan"].items) > 0
        /\ \A k \in 1..Len(d["plan"].items) :
                d["plan"].items[k].items["estimated_cost_inr"].n >= 0

\* C1: with the client configured, generate_student_itinerary returns
\* either success with a well-formed itinerary (positive unique days,
\* non-empty plans, every required field, costs >= 0) or the exhaustion
\* failure with no itinerary; success never comes with a result that is
\* empty, not a list, or short of a required field.
C1_ValidItineraryOrFailure ==
    (Returned_ /\ GEMINI_CLIENT = "client") =>
        \/ result.msg = GENERATED /\ WellFormedItinerary(result.itinerary)
        \/ result.msg = Failed(last_error) /\ result.itinerary.t = "None"

\* C2: one call of generate_student_itinerary invokes generate_content at
\* most MAX_RETRIES (5) times.
C2_AtMostMaxRetriesCalls == calls <= MAX_RETRIES /\ calls <= 5

C2_Witness == Returned_ /\ calls = MAX_RETRIES

DefaultDelays == << 1, 2, 4, 8 >>

\* C3: the i-th delay slept (i from 0) follows failed attempt i and is
\* INITIAL_DELAY * 2^i, i.e. 1, 2, 4, 8; a delay is always followed by
\* another attempt, so none follows the fifth attempt or a success.
C3_BackoffBetweenAttempts ==
    /\ Len(sleeps) <= MAX_RETRIES - 1
    /\ \A i \in 1..Len(sleeps) :
        /\ sleeps[i].after = i - 1
        /\ sleeps[i].delay = INITIAL_DELAY * (2 ^ (i - 1))
        /\ sleeps[i].delay = DefaultDelays[i]
    /\ pc = "gen_sleep" => Len(sleeps) = calls - 1 /\ result = NoResult
    /\ (pc = "gen_loop" /\ attempt < MAX_RETRIES) => Len(sleeps) = calls
    /\ (pc = "gen_loop" /\ attempt >= MAX_RETRIES) => Len(sleeps) = calls - 1
    /\ (Returned_ /\ calls > 0) => Len(sleeps) = calls - 1
    /\ (Returned_ /\ calls = 0) => sleeps = << >>

C3_Witness ==
    /\ Returned_
    /\ result.msg # GENERATED
    /\ calls = MAX_RETRIES
    /\ [i \in 1..Len(sleeps) |-> sleeps[i].delay] = DefaultDelays

\* The provider outcome of the latest attempt, by kind.
TransportFailure(resp) == resp.kind = "raise"
DecodeFailure(resp) ==
    resp.kind = "return" /\ resp.has_text /\ ~json_loads(resp.text).ok
Decodes(resp) ==
    resp.kind = "return" /\ resp.has_text /\ json_loads(resp.text).ok

AttemptStep == pc = "gen_loop" /\ calls' = calls + 1

\* C4: a failed attempt k < MAX_RETRIES is followed by the backoff and then
\* by attempt k+1, and nothing else; a transport error and a decode error
\* are treated alike: the error is recorded for that attempt, nothing is
\* returned, and the same delay is slept before the retry.
C4_FailureIsRetried ==
    /\ [][ (AttemptStep /\ calls' < MAX_RETRIES
                /\ (TransportFailure(response') \/ DecodeFailure(response')))
            => /\ pc' = "gen_sleep"
               /\ result' = NoResult
               /\ UNCHANGED << attempt, sleeps >>
               /\ TransportFailure(response') =>
                    last_error' = "Gemini API connection error (Attempt "
                                    \o ToString(calls') \o "): " \o response'.e
               /\ DecodeFailure(response') =>
                    last_error' = "AI response format error (Attempt "
                                    \o ToString(calls')
                                    \o "): Failed to parse JSON response. Details: "
                                    \o DecodeDetail(json_loads(response'.text)) ]_vars
    /\ [][ pc = "gen_sleep"
            => /\ pc' = "gen_loop"
               /\ attempt' = attempt + 1
               /\ sleeps' = Append(sleeps, [after |-> attempt,
                                            delay |-> DefaultDelays[attempt + 1]])
               /\ UNCHANGED << calls, result, last_error >> ]_vars
    /\ [][ (pc = "gen_loop" /\ attempt < MAX_RETRIES) => AttemptStep ]_vars
    /\ [](pc = "gen_sleep" => ENABLED time_sleep)
    /\ []((pc = "gen_loop" /\ attempt < MAX_RETRIES) =>
            ENABLED (\E resp \in Responses : generate_content(resp)))

\* a decode error on the fourth attempt, about to be retried
C4_Witness ==
    /\ pc = "gen_loop"
    /\ attempt = MAX_RETRIES - 1
    /\ calls = MAX_RETRIES - 1
    /\ DecodeFailure(response)
    /\ Len(sleeps) = MAX_RETRIES - 1

\* the description of the failure of the fifth attempt
FifthAttemptError ==
    IF DecodeFailure(response)
    THEN "AI response format error (Attempt 5): Failed to parse JSON response. Details: "
            \o DecodeDetail(json_loads(response.text))
    ELSE IF TransportFailure(response)
    THEN "Gemini API connection error (Attempt 5): " \o response.e
    ELSE "Gemini API connection error (Attempt 5): the JSON object must be str, bytes or bytearray, not NoneType"

Exhausted == Returned_ /\ GEMINI_CLIENT = "client" /\ result.msg # GENERATED

\* C5: when all MAX_RETRIES attempts fail, the message returned carries the
\* error description of the last (fifth) attempt and the itinerary is None.
C5_ExhaustionCarriesLastError ==
    Exhausted =>
        /\ calls = MAX_RETRIES
        /\ result.itinerary.t = "None"
        /\ result.msg =
            "Failed to generate itinerary after multiple retries. Last known error: "
                \o FifthAttemptError

C5_Witness == Exhausted /\ DecodeFailure(response) /\ response.text = TextTruncated

TurnDone == pc = "chat_done" /\ prompt # ""

Last(log) == log[Len(log)]

\* C6: a chat turn that appended the user's message ends with the log two
\* entries longer: what it was, then the user's message, then exactly one
\* message of role "model" - on success, on failure before the first chunk
\* and on failure in mid-stream.
C6_TurnAppendsTwo ==
    TurnDone =>
        /\ chat_outcome \in { "success", "error" }
        /\ Len(Messages) = Len(log_before) + 2
        /\ SubSeq(Messages, 1, Len(log_before)) = log_before
        /\ Messages[Len(log_before) + 1] = [role |-> "user", content |-> prompt]
        /\ Last(Messages).role = "model"

\* a turn that failed after text had been streamed
C6_Witness ==
    /\ TurnDone
    /\ chat_outcome = "error"
    /\ full_response # ""
    /\ Len(log_before) > 1

\* C7: when the streaming call fails, before the first chunk or later, the
\* message appended is the error description and not the text streamed so
\* far, the user's message is still in the log, and the provider was
\* called once only.
C7_FailedTurnLogsError ==
    /\ stream_calls <= 1
    /\ (TurnDone /\ chat_outcome = "error") =>
        /\ caught \in StreamErrors
        /\ Last(Messages) = [role |-> "model", content |-> "An error occurred: " \o caught]
        /\ Last(Messages).content # full_response
        /\ Messages[Len(Messages) - 1] = [role |-> "user", content |-> prompt]
        /\ stream_calls = 1

C7_Witness ==
    /\ TurnDone
    /\ chat_outcome = "error"
    /\ arrived = << Chunk("Hel"), Chunk("lo!") >>

\* the texts of the chunks that carry some, joined in order of arrival
RECURSIVE JoinTexts(_)
JoinTexts(chunks) ==
    IF chunks = << >> THEN ""
    ELSE IF Head(chunks).has_text
         THEN Head(chunks).text \o JoinTexts(Tail(chunks))
         ELSE JoinTexts(Tail(chunks))

\* C8: on a successful turn the content of the appended model message is
\* the concatenation, in arrival order, of the non-empty texts of the
\* stream's chunks; chunks without text are skipped; "Hel", "lo!" give
\* "Hello!".
C8_ReplyIsChunksInOrder ==
    (TurnDone /\ chat_outcome = "success") =>
        /\ Last(Messages) = [role |-> "model", content |-> JoinTexts(arrived)]
        /\ arrived = << Chunk("Hel"), Chunk("lo!") >> =>
                Last(Messages).content = "Hello!"

C8_Witness ==
    /\ TurnDone
    /\ chat_outcome = "success"
    /\ log_before = << GREETING >>
    /\ arrived = << Chunk("Hel"), Chunk("lo!") >>
    /\ Messages = << GREETING, Message("user", "hi"), Message("model", "Hello!") >>

\* C9: with GEMINI_CLIENT None, generate_student_itinerary returns the
\* error description and no itinerary, the chat page reports itself
\* unavailable, and neither makes a provider call, sleeps, or changes the
\* conversation log.
C9_NoClientFailsFast ==
    /\ [](GEMINI_CLIENT = "None" =>
            /\ calls = 0
            /\ stream_calls = 0
            /\ sleeps = << >>
            /\ pc \in { "start", "main", "gen_returned", "chat_done" }
            /\ Returned_ =>
                result = [msg |-> "Error: Gemini client is not initialized. Check API Key.",
                          itinerary |-> None]
            /\ pc = "chat_done" => chat_outcome = "unavailable")
    /\ [][ (GEMINI_CLIENT = "None" /\ pc = "main")
            => /\ session_state' = session_state
               /\ pc' \in { "gen_returned", "chat_done" } ]_vars

\* the chat page found unavailable in a session that has a conversation
C9_Witness ==
    /\ GEMINI_CLIENT = "None"
    /\ pc = "chat_done"
    /\ chat_outcome = "unavailable"
    /\ HasMessages
    /\ Len(Messages) >= 3

\* C10: the call returns at the first attempt whose response decodes, with
\* the decoded itinerary, no further provider call and no further delay:
\* success at attempt n comes with n calls and n-1 delays.
C10_ReturnsAtFirstSuccess ==
    /\ [][ (AttemptStep /\ Decodes(response'))
            => /\ pc' = "gen_returned"
               /\ result' = [msg |-> GENERATED,
                             itinerary |-> json_loads(response'.text).val]
               /\ UNCHANGED sleeps ]_vars
    /\ [][ pc = "gen_returned" => (pc' = "start" /\ calls' = 0 /\ sleeps' = << >>) ]_vars
    /\ [](Succeeded =>
            /\ Decodes(response)
            /\ calls \in 1..MAX_RETRIES
            /\ Len(sleeps) = calls - 1
            /\ attempt = calls - 1)
    /\ []((pc \in { "gen_loop", "gen_sleep" }) => result = NoResult)

\* malformed JSON on attempts 1-4, the valid itinerary on attempt 5
C10_Witness ==
    /\ Succeeded
    /\ calls = 5
    /\ Len(sleeps) = 4
    /\ last_error = "AI response format error (Attempt 4): Failed to parse JSON response. Details: Expecting value (token 1)"
    /\ result.itinerary = json_loads(TextThreeDays).val
    /\ Len(result.itinerary.items) = 3

IsPrefix(s, t) == Len(s) <= Len(t) /\ SubSeq(t, 1, Len(s)) = s

\* C11: the conversation log is append-only: once seeded it stays, every
\* step leaves the log it found as a prefix of the log it leaves (so every
\* earlier log is a prefix of every later one: nothing is removed,
\* reordered or rewritten), and the greeting seeded at session start is
\* always its first entry.
C11_LogAppendOnly ==
    /\ [][ HasMessages => (HasMessages' /\ IsPrefix(Messages, Messages')) ]_vars
    /\ [][ ~HasMessages =>
            (HasMessages' => Messages'[1] =
                [role |-> "model",
                 content |-> "Hello! I'm a helpful AI assistant. How can I help you plan your next budget trip or answer a general question?"]) ]_vars
    /\ [](HasMessages =>
            /\ Len(Messages) >= 1
            /\ Messages[1] = GREETING
            /\ IsPrefix(log_before, Messages))

\* two turns done, the first failed and the second answered
C11_Witness ==
    /\ pc = "chat_done"
    /\ chat_outcome = "success"
    /\ Len(Messages) = 5
    /\ Messages[1] = GREETING
    /\ Messages[3] = Message("model", "An error occurred: Server disconnected")
    /\ Messages[5] = Message("model", "Hello!")

====
